---- MODULE Spec2Model ----
(***************************************************************************)
(* Project Neon (src/app.py): the voice-assistant turn pipeline of main(). *)
(*                                                                         *)
(* Streamlit executes main() from top to bottom once per user interaction  *)
(* and once per st.experimental_rerun().  One step of this model is one    *)
(* such execution of main(): its trigger is the button that was pressed    *)
(* (or the pending rerun request), its inputs are the outcomes of the      *)
(* external services the execution calls.  st.session_state.voice_state    *)
(* is the only state that survives an execution; the widgets an execution  *)
(* renders decide which buttons the user can press next.                   *)
(***************************************************************************)
EXTENDS Integers, Sequences, FiniteSets, TLC

(* ------------------------------ bounds -------------------------------- *)

\* Per-Turn call counters and the Turn number saturate at these values.
MaxCalls == 3
MaxTurns == 2
\* Number of distinct temporary file names the temp directory can hold.
MaxFiles == 2

(* ------------------------------ values -------------------------------- *)

\* Python's None.
None == "<None>"
\* Marks an output element that the last execution did not render.
NotShown == "<not shown>"
\* Marks a stage that an execution did not reach.
NotRun == "-"

\* Transcripts the recognition service may return (result["text"]).
Transcripts == {"", "what is the revenue"}
\* Contents the dialogue service may return (message.content may be null).
Replies == {None, "", "the revenue is 3"}
\* The system message of the dialogue request.
Persona == "You are Project Neon..."
\* The waveform np.concatenate(audio_frames) returns.
Audio == "audio"

Stages == {"capture", "recognition", "dialogue", "synthesis"}
FileIds == 1..MaxFiles

\* Python truthiness of an optional string: None and "" are falsy.
Truthy(x) == x # None /\ x # ""

Inc(n, max) == IF n < max THEN n + 1 ELSE max

VARIABLES
    voice_state,  \* st.session_state.voice_state
    rerun,        \* TRUE: the last execution ended in st.experimental_rerun()
    ui,           \* what the last execution rendered
    last,         \* what the last execution did (trigger, calls, outcomes)
    turn,         \* calls and stage results of the live Turn
    disk,         \* temporary audio files that exist on disk
    atexit        \* temporary files with an atexit deletion registered

vars == <<voice_state, rerun, ui, last, turn, disk, atexit>>

(* ------------------------- session state ------------------------------ *)

\* The dictionary main() installs on the first execution.
InitialVoiceState ==
    [recording |-> FALSE, processing |-> FALSE,
     user_text |-> None, gpt_response |-> None]

\* Variant: a reset that leaves the reply in place.
ResetKeepsReply ==
    [recording |-> FALSE, processing |-> FALSE,
     user_text |-> None, gpt_response |-> voice_state.gpt_response]

\* The dictionary "Start New Conversation" installs.
ResetVoiceState ==
    [recording |-> FALSE, processing |-> FALSE,
     user_text |-> None, gpt_response |-> None]

\* Variant: the button without its disabled= argument.
NeverDisabled(vs) == FALSE

\* disabled= argument of the "Start Recording" button.
StartDisabled(vs) == vs.processing

\* Effect of pressing "Start Recording".
StartPressed(vs) == [vs EXCEPT !.recording = TRUE, !.processing = TRUE]

(* ------------------------- video conversation ------------------------- *)

VideoOutcomes == {"ok_url", "ok_no_url", "ok_empty_url", "not_ok",
                  "bad_json", "exception"}

\* The outcomes in which the service gives no conversation URL.
VideoFailures == {"ok_no_url", "not_ok", "bad_json", "exception"}

\* Variant: the except branch returns the error text.
StartNeonReturnsErrorText(vid) ==
    CASE vid = "ok_url" -> "https://tavus.daily.co/c1"
      [] vid = "ok_empty_url" -> ""
      [] vid \in {"bad_json", "exception"} -> "Error starting conversation"
      [] OTHER -> None

\* Return value of start_neon_conversation().
start_neon_conversation(vid) ==
    CASE vid = "ok_url" -> "https://tavus.daily.co/c1"
      [] vid = "ok_empty_url" -> ""
      [] OTHER -> None

\* st.error inside start_neon_conversation(): the except branch.
VideoRaised(vid) == vid \in {"bad_json", "exception"}

(* ------------------------------ capture ------------------------------- *)

\* "no_receiver": ctx.audio_receiver is falsy; "no_frames": get_frames
\* returns no frame; "timeout": get_frames raises because nothing arrived
\* within RECORD_SECONDS; "frames": frames arrived; "error": the transport
\* or a frame conversion raises.
CaptureOutcomes == {"no_receiver", "no_frames", "timeout", "frames", "error"}

\* The outcomes in which zero frames arrive.
ZeroFrames == {"no_receiver", "no_frames", "timeout"}

\* Variant: an empty buffer returned when no frame arrived.
RecordAudioEmptyBuffer(cap) ==
    IF cap \in {"frames", "no_frames"} THEN Audio ELSE None

\* Return value of record_audio().
record_audio(cap) == IF cap = "frames" THEN Audio ELSE None

\* st.error inside record_audio(): the except branch.
CaptureRaised(cap) == cap \in {"timeout", "error"}

(* --------------------------- transcription ---------------------------- *)

RecognitionOutcomes == {"tempfile_fails", "wav_write_fails",
                        "recognition_fails", "ok", "unlink_permission_error"}

\* Outcomes in which NamedTemporaryFile(delete=False) created the file.
CreatesFile(stt) == stt # "tempfile_fails"

\* A name not used by a file on disk; 0 when the directory is full.
FreshFile(d) ==
    IF FileIds \ d = {} THEN 0
    ELSE CHOOSE f \in FileIds \ d : \A g \in FileIds \ d : f <= g

\* Return value of transcribe_audio().
transcribe_audio(stt, text) ==
    IF stt \in {"ok", "unlink_permission_error"} THEN text ELSE None

\* The files on disk after transcribe_audio() created file f.
DiskAfterTranscribe(d, f, stt) ==
    IF ~CreatesFile(stt) THEN d
    ELSE IF stt = "ok" THEN d \ {f}
    ELSE d \cup {f}

\* The atexit registrations after transcribe_audio() created file f.
AtexitAfterTranscribe(a, f, stt) ==
    IF stt = "unlink_permission_error" THEN a \cup {f} ELSE a

\* Variant: the call without the "is not None" guard.
AlwaysTranscribe(audio) == TRUE

\* Guard of the transcribe_audio() call in main().
TranscribeInvoked(audio) == audio # None

(* ------------------------------ dialogue ------------------------------ *)

DialogueOutcomes == {"exception", "returned"}

\* The messages argument of client.chat.completions.create().
DialogueMessages(vs) ==
    <<[role |-> "system", content |-> Persona],
      [role |-> "user", content |-> vs.user_text]>>

\* Variant: a failing call that drops the transcript.
DialogueFailureClearsTurn(vs, dlg, reply) ==
    IF dlg = "exception" THEN [vs EXCEPT !.user_text = None]
    ELSE [vs EXCEPT !.gpt_response = reply]

\* voice_state after the dialogue call: the assignment is skipped when the
\* call raises.
AfterDialogue(vs, dlg, reply) ==
    IF dlg = "exception" THEN vs ELSE [vs EXCEPT !.gpt_response = reply]

(* ------------------------------ synthesis ----------------------------- *)

\* "exception": text_to_speech raises; "playback_exception": play_audio
\* raises after text_to_speech has returned.
SynthesisOutcomes == {"exception", "playback_exception", "ok"}

\* Variant: an audio failure that takes the reply back.
PlayFailureClearsReply(vs, tts) ==
    IF tts = "ok" THEN vs ELSE [vs EXCEPT !.gpt_response = None]

\* voice_state after the "Play Response" branch: it assigns nothing.
AfterPlay(vs, tts) == vs

\* Variant: synthesis skipped once the Turn has synthesized its reply.
PlayCached(btn) == btn = "play" /\ turn.calls["synthesis"] = 0

\* Value of st.button("Play Response") in an execution triggered by btn.
PlayPressed(btn) == btn = "play"

(* --------------------- one execution of main() ------------------------ *)

NoCalls == [s \in Stages |-> 0]

\* The Turn record of a Turn in which no stage has run yet.  starts counts
\* the "Start Recording" presses since voice_state was installed.
FreshTurn(no, starts) ==
    [no |-> no, starts |-> starts, calls |-> NoCalls,
     capture |-> NotRun, transcript |-> NotRun]

\* What an execution has rendered when it reaches the recording block:
\* the video column and the "Start Recording" button.
BaseUi(vs, btn, vid) ==
    [start  |-> ~StartDisabled(vs),
     said   |-> NotShown,
     resp   |-> NotShown,
     play   |-> FALSE,
     reset  |-> FALSE,
     audio  |-> FALSE,
     video  |-> IF btn # "video" THEN "none"
                ELSE IF Truthy(start_neon_conversation(vid)) THEN "link"
                ELSE "failed",
     errors |-> IF btn = "video" /\ VideoRaised(vid) THEN {"video"} ELSE {}]

\* The record of an execution that has called no stage yet.  parity is the
\* number of executions so far modulo 2: it tells an execution that
\* changes nothing else from no execution at all.
BaseLast(btn, vid) ==
    [trigger     |-> btn,
     parity      |-> IF btn = "session" THEN 0 ELSE 1 - last.parity,
     calls       |-> NoCalls,
     completed   |-> {},
     capture     |-> NotRun,
     recognition |-> NotRun,
     dialogue    |-> NotRun,
     messages    |-> <<>>,
     synthesis   |-> NotRun,
     ttsInput    |-> NotShown,
     tmpFile     |-> 0,
     video       |-> IF btn = "video" THEN vid ELSE NotRun]

Commit(vs, rr, u, l, t, d, a) ==
    /\ voice_state' = vs
    /\ rerun' = rr
    /\ ui' = u
    /\ last' = l
    /\ turn' = t
    /\ disk' = d
    /\ atexit' = a

\* "Start Recording" pressed: set both flags and rerun.
StartBlock(btn, vid) ==
    Commit(StartPressed(voice_state), TRUE,
           BaseUi(voice_state, btn, vid), BaseLast(btn, vid),
           FreshTurn(Inc(turn.no, MaxTurns), Inc(turn.starts, MaxCalls)), disk, atexit)

\* recording is set: capture, transcribe what was captured, rerun.
RecordingBlock(btn, vid, cap, stt, text) ==
    LET vs      == voice_state
        audio   == record_audio(cap)
        invoked == TranscribeInvoked(audio)
        f       == FreshFile(disk)
        created == invoked /\ CreatesFile(stt)
        result  == transcribe_audio(stt, text)
        vs1     == IF invoked THEN [vs EXCEPT !.user_text = result] ELSE vs
        errs    == (IF CaptureRaised(cap) THEN {"recording"} ELSE {})
                   \cup (IF invoked /\ result = None
                         THEN {"transcription"} ELSE {})
        u0      == BaseUi(vs, btn, vid)
    IN  /\ created => f # 0
        /\ Commit([vs1 EXCEPT !.recording = FALSE],
                  TRUE,
                  [u0 EXCEPT !.errors = @ \cup errs],
                  [BaseLast(btn, vid) EXCEPT
                      !.calls = [@ EXCEPT !["capture"] = 1,
                                          !["recognition"] =
                                              IF invoked THEN 1 ELSE 0],
                      !.completed = {"capture"} \cup
                          (IF invoked THEN {"recognition"} ELSE {}),
                      !.capture = cap,
                      !.recognition = IF invoked THEN stt ELSE NotRun,
                      !.tmpFile = IF created THEN f ELSE 0],
                  [turn EXCEPT
                      !.calls = [@ EXCEPT
                          !["capture"] = Inc(@, MaxCalls),
                          !["recognition"] =
                              IF invoked THEN Inc(@, MaxCalls) ELSE @],
                      !.capture = audio,
                      !.transcript = IF invoked THEN result ELSE @],
                  IF invoked THEN DiskAfterTranscribe(disk, f, stt) ELSE disk,
                  IF invoked THEN AtexitAfterTranscribe(atexit, f, stt)
                  ELSE atexit)

\* A transcript is there and no reply yet: ask the dialogue service.  An
\* exception of the call is not caught: the execution ends there.
DialogueBlock(btn, vid, dlg, reply) ==
    LET vs == voice_state
        u0 == BaseUi(vs, btn, vid)
    IN  Commit(AfterDialogue(vs, dlg, reply),
               dlg # "exception",
               [u0 EXCEPT !.said = vs.user_text,
                          !.errors = IF dlg = "exception"
                                     THEN @ \cup {"exception"} ELSE @],
               [BaseLast(btn, vid) EXCEPT
                   !.calls = [@ EXCEPT !["dialogue"] = 1],
                   !.completed = IF dlg = "exception" THEN {}
                                 ELSE {"dialogue"},
                   !.dialogue = dlg,
                   !.messages = DialogueMessages(vs)],
               [turn EXCEPT
                   !.calls = [@ EXCEPT !["dialogue"] = Inc(@, MaxCalls)]],
               disk, atexit)

\* Transcript and reply are there: show both, the "Play Response" button
\* and the "Start New Conversation" button.
ReplyBlock(btn, vid, tts) ==
    LET vs == voice_state
        u0 == [BaseUi(vs, btn, vid) EXCEPT
                  !.said = vs.user_text,
                  !.resp = vs.gpt_response,
                  !.play = TRUE]
        l0 == BaseLast(btn, vid)
        l1 == [l0 EXCEPT
                  !.calls = [@ EXCEPT !["synthesis"] = 1],
                  !.completed = IF tts = "exception" THEN {}
                                ELSE {"synthesis"},
                  !.synthesis = tts,
                  !.ttsInput = vs.gpt_response]
        t1 == [turn EXCEPT
                  !.calls = [@ EXCEPT !["synthesis"] = Inc(@, MaxCalls)]]
    IN  IF PlayPressed(btn)
        THEN IF tts # "ok"
             THEN Commit(AfterPlay(vs, tts), FALSE,
                         [u0 EXCEPT !.errors = @ \cup {"exception"}],
                         l1, t1, disk, atexit)
             ELSE Commit(AfterPlay(vs, tts), FALSE,
                         [u0 EXCEPT !.audio = TRUE, !.reset = TRUE],
                         l1, t1, disk, atexit)
        ELSE IF btn = "reset"
        THEN Commit(ResetVoiceState, TRUE, [u0 EXCEPT !.reset = TRUE],
                    l0, FreshTurn(turn.no, 0), disk, atexit)
        ELSE Commit(vs, FALSE, [u0 EXCEPT !.reset = TRUE],
                    l0, turn, disk, atexit)

\* Nothing to do in the voice column.
IdleBlock(btn, vid) ==
    Commit(voice_state, FALSE, BaseUi(voice_state, btn, vid),
           BaseLast(btn, vid), turn, disk, atexit)

\* The video column: start_neon_conversation() is called only in the
\* execution the "Start Video Chat" button triggers.
VideoCalls(btn) == IF btn = "video" THEN VideoOutcomes ELSE {NotRun}

\* One execution of main() triggered by btn, for every outcome of the
\* services it calls.
main(btn) ==
    \E vid \in VideoCalls(btn) :
        IF btn = "start" THEN StartBlock(btn, vid)
        ELSE IF voice_state.recording
        THEN \E cap \in CaptureOutcomes, stt \in RecognitionOutcomes,
                text \in Transcripts :
                 RecordingBlock(btn, vid, cap, stt, text)
        ELSE IF Truthy(voice_state.user_text)
        THEN IF voice_state.gpt_response = None
             THEN \E dlg \in DialogueOutcomes, reply \in Replies :
                      DialogueBlock(btn, vid, dlg, reply)
             ELSE \E tts \in SynthesisOutcomes : ReplyBlock(btn, vid, tts)
        ELSE IdleBlock(btn, vid)

(* ------------------------------ actions ------------------------------- *)

\* The session's first execution has run: nothing pressed, nothing pending.
Init ==
    /\ voice_state = InitialVoiceState
    /\ rerun = FALSE
    /\ ui = BaseUi(InitialVoiceState, "session", NotRun)
    /\ last = BaseLast("session", NotRun)
    /\ turn = FreshTurn(0, 0)
    /\ disk = {}
    /\ atexit = {}

\* The user presses "Start Video Chat" (always rendered).
ClickStartVideoChat == ~rerun /\ main("video")

\* The user presses "Start Recording" (rendered enabled).
ClickStartRecording == ~rerun /\ ui.start /\ main("start")

\* The user presses "Play Response".
ClickPlayResponse == ~rerun /\ ui.play /\ main("play")

\* The user presses "Start New Conversation".
ClickStartNewConversation == ~rerun /\ ui.reset /\ main("reset")

\* The execution st.experimental_rerun() asked for.
Rerun == rerun /\ main("rerun")

Next ==
    \/ ClickStartVideoChat
    \/ ClickStartRecording
    \/ ClickPlayResponse
    \/ ClickStartNewConversation
    \/ Rerun

Spec == Init /\ [][Next]_vars

\* Streamlit always runs the execution st.experimental_rerun() asked for.
FairSpec == Spec /\ WF_vars(Rerun)

(* ------------------------------ claims -------------------------------- *)

\* An execution that no voice-pipeline button triggered: the rerun the
\* script asked for, or the execution a "Start Video Chat" press causes.
ReExecution == last'.trigger \in {"rerun", "video"}

\* C1: while processing is set and the previous execution completed no
\* stage, re-executing main() calls no stage (capture, recognition,
\* dialogue, synthesis) that the live Turn has already called.
C1_IdempotentReentrancy ==
    [][(voice_state.processing /\ last.completed = {} /\ ReExecution)
        => \A s \in Stages : last'.calls[s] = 1 => turn.calls[s] = 0]_vars

\* C2: once capture has returned None or the transcription has failed and
\* the script awaits the user, the Turn is idle: recording and processing
\* are false, user_text is None and "Start Recording" is enabled.
C2_FailedCaptureReturnsToIdle ==
    (~rerun /\ (turn.capture = None \/ turn.transcript = None))
        => /\ ~voice_state.recording
           /\ ~voice_state.processing
           /\ voice_state.user_text = None
           /\ ui.start

\* C3: after an execution in which the dialogue call raised, the error is
\* shown and a new turn can be started: "Start Recording" is enabled or
\* "Start New Conversation" is rendered.
C3_DialogueFailureReturnsToIdle ==
    (~rerun /\ last.dialogue = "exception")
        => /\ "exception" \in ui.errors
           /\ ui.start \/ ui.reset

\* C4: within one Turn the dialogue service is called at most once, and
\* every call carries the messages [system persona, user = transcript].
C4_DialogueCalledOncePerTurn ==
    /\ turn.calls["dialogue"] <= 1
    /\ last.calls["dialogue"] = 1
         => last.messages = <<[role |-> "system", content |-> Persona],
                              [role |-> "user", content |-> turn.transcript]>>

\* C5: gpt_response is non-null only if user_text is non-null.
C5_ReplyOnlyWithTranscript ==
    voice_state.gpt_response # None => voice_state.user_text # None

\* A reply has been stored.
C5_Witness ==
    voice_state.gpt_response # None /\ last.dialogue = "returned"

\* C6: the temporary file a transcribe_audio() invocation created is off
\* the disk, or has an atexit deletion registered, when it has returned.
C6_TempFileDeletedOrDeferred ==
    last.tmpFile # 0 => (last.tmpFile \notin disk \/ last.tmpFile \in atexit)

\* C7: an execution in which the dialogue call raises changes no field of
\* voice_state and displays the transcript.
C7_DialogueFailureKeepsTranscript ==
    [][last'.dialogue = "exception"
        => /\ voice_state' = voice_state
           /\ Truthy(voice_state'.user_text)
           /\ ui'.said = voice_state'.user_text]_vars

\* The dialogue call has raised after a successful transcription.
C7_Witness ==
    /\ last.dialogue = "exception"
    /\ voice_state.user_text = turn.transcript
    /\ ui.said = turn.transcript
    /\ Truthy(turn.transcript)

\* C8: while recording is set, user_text and gpt_response are None.
C8_NewTurnInheritsNothing ==
    voice_state.recording
        => voice_state.user_text = None /\ voice_state.gpt_response = None

\* "Start Recording" has fired for a second Turn, after a reset.
C8_Witness ==
    voice_state.recording /\ last.trigger = "start" /\ turn.no = 2

\* C9: in a Turn whose capture returned None the recognition stage is not
\* invoked and user_text stays None.
C9_NoAudioNoRecognition ==
    turn.capture = None
        => /\ turn.calls["recognition"] = 0
           /\ turn.transcript = NotRun
           /\ voice_state.user_text = None

\* Capture has run and returned None.
C9_Witness ==
    turn.capture = None /\ last.calls["capture"] = 1

\* C10: an execution calls text_to_speech exactly when "Play Response"
\* triggered it, once, with the stored reply as input.
C10_PlaybackOnlyOnPlay ==
    [][/\ last'.calls["synthesis"] = 1 <=> last'.trigger = "play"
       /\ last'.trigger = "play"
            => /\ last'.ttsInput = voice_state.gpt_response
               /\ voice_state.gpt_response # None]_vars

\* Two "Play Response" presses on the same reply made two synthesis calls.
C10_Witness ==
    /\ last.trigger = "play"
    /\ turn.calls["synthesis"] = 2
    /\ last.ttsInput = voice_state.gpt_response

\* C11: an execution that "Play Response" triggered leaves all four fields
\* of voice_state unchanged, whether synthesis and playback succeed or fail.
C11_PlayLeavesTurnUnchanged ==
    [][last'.trigger = "play"
        => /\ last'.synthesis \in SynthesisOutcomes
           /\ voice_state' = voice_state]_vars

\* A "Play Response" press whose synthesis or playback failed, with the
\* reply still stored and displayed.
C11_Witness ==
    /\ last.trigger = "play"
    /\ last.synthesis \in {"exception", "playback_exception"}
    /\ Truthy(voice_state.gpt_response)
    /\ ui.resp = voice_state.gpt_response

\* C12: when zero frames arrive (no receiver, no frame, or a wait that
\* times out), record_audio returns None and nothing is raised to main():
\* the execution goes on to clear recording and to request the rerun.
C12_ZeroFramesReturnNone ==
    last.capture \in ZeroFrames
        => /\ turn.capture = None
           /\ "exception" \notin ui.errors
           /\ ~voice_state.recording
           /\ rerun

\* A capture whose frame wait timed out has returned.
C12_Witness ==
    last.capture = "timeout" /\ turn.capture = None /\ rerun

\* C13: a transport failure of capture reaches main() as an error outcome
\* with an error message, and a zero-frame capture as None with no error
\* reported.
C13_CaptureFailureDistinct ==
    /\ last.capture = "error"
         => turn.capture # None /\ "recording" \in ui.errors
    /\ last.capture \in ZeroFrames
         => turn.capture = None /\ "recording" \notin ui.errors

\* C14: for a non-OK response, an OK response without conversation_url, a
\* transport exception or an unparsable body, start_neon_conversation
\* returns None and main() shows the failure and no link; the link is shown
\* only for a returned non-empty conversation_url.
C14_VideoFailureShowsNoLink ==
    last.trigger = "video"
        => /\ ui.video \in {"link", "failed"}
           /\ last.video \in VideoFailures
                => /\ start_neon_conversation(last.video) = None
                   /\ ui.video = "failed"
           /\ ui.video = "link"
                => /\ last.video = "ok_url"
                   /\ Truthy(start_neon_conversation(last.video))

\* A "Start Video Chat" press whose request raised: failure shown, no link.
C14_Witness ==
    /\ last.video = "exception"
    /\ ui.video = "failed"
    /\ "video" \in ui.errors

\* C15: recording never changes from false to true while processing is true,
\* recording implies processing, and between two resets "Start Recording"
\* fires at most once and capture runs at most once.
C15_ProcessingLocksStart ==
    [][/\ (voice_state.processing /\ ~voice_state.recording)
            => ~voice_state'.recording
       /\ voice_state'.recording => voice_state'.processing
       /\ turn'.starts <= 1
       /\ turn'.calls["capture"] <= 1]_vars

\* The user acted while the lock was held after the Turn's capture:
\* "Start Recording" was rendered disabled and recording stayed false.
C15_Witness ==
    /\ voice_state.processing
    /\ ~voice_state.recording
    /\ ~ui.start
    /\ last.trigger = "video"
    /\ turn.calls["capture"] = 1

\* C16: until the reset, user_text keeps its value once it is non-null and
\* gpt_response keeps its value once it is non-null; the reset installs the
\* initial values of all four fields.
C16_TurnReplacedOnlyByReset ==
    [][/\ last'.trigger # "reset"
            => /\ voice_state.user_text # None
                    => voice_state'.user_text = voice_state.user_text
               /\ voice_state.gpt_response # None
                    => voice_state'.gpt_response = voice_state.gpt_response
       /\ last'.trigger = "reset"
            => voice_state' = InitialVoiceState]_vars

\* A Turn with transcript and reply was shown again by a later execution,
\* both values still there.
C16_Witness ==
    /\ last.trigger = "video"
    /\ Truthy(voice_state.user_text)
    /\ Truthy(voice_state.gpt_response)
    /\ ui.said = voice_state.user_text
    /\ ui.resp = voice_state.gpt_response

\* C17: every chain of executions requested through st.experimental_rerun
\* ends: a pending rerun leads to an execution that requests none.
C17_RerunChainFinite == rerun ~> ~rerun

\* C18: whenever the script has finished and awaits the user, "Start
\* Recording" is enabled or "Start New Conversation" is rendered.
C18_NoStuckState == ~rerun => (ui.start \/ ui.reset)

\* C19: an execution that "Start Video Chat" triggered changes no field of
\* voice_state and calls no capture, recognition, dialogue or synthesis.
C19_VideoIndependentOfVoice ==
    [][last'.trigger = "video"
        => /\ voice_state' = voice_state
           /\ \A s \in Stages : last'.calls[s] = 0]_vars

====
